---------------------------- MODULE Spec2Model ----------------------------
(***************************************************************************)
(* Model of the actuarial data generators (data_generators/policies.py,    *)
(* claims.py, reserves.py, generate_all.py).                               *)
(*                                                                         *)
(* Conventions.                                                            *)
(*  - Currency amounts are integers counting cents: the code keeps floats  *)
(*    rounded to two decimals (round(x, 2)).                               *)
(*  - Rates and factors are integers counting hundredths (percent).        *)
(*  - A date is a record [year, month, day] of the proleptic Gregorian     *)
(*    calendar, as datetime.datetime is; ToOrdinal is date.toordinal().    *)
(*  - A random draw is an input of the operator that uses it.  The         *)
(*    table-level specifications choose the draws with \E (the generator   *)
(*    state is abstracted); the process-level specification SpecProcess   *)
(*    takes them from the seeded stream.                                   *)
(***************************************************************************)
EXTENDS Integers, Sequences, FiniteSets, TLC

\* ------------------------------------------------------------------ bounds
\* Largest policy_count / total_claims argument explored by the table specs.
MaxPolicies == 2
MaxClaims == 2

\* The most generator calls one process makes.
MaxCalls == 2

\* ------------------------------------------------------- program constants
ClaimNumberWidth == 8          \* f"CLM{id:08d}"
MaxDelayDays == 365            \* np.clip(report_delays, 0, 365)
FactorFloor == 10              \* max(0.1, factor), in hundredths
ClosedThreshold == 1000        \* outstanding <= 10      (cents)
OpenThreshold == 100000        \* outstanding <= 1000    (cents)
SeedValue == 42                \* np.random.seed(42), Faker.seed(42)

\* -------------------------------------------------------------- arithmetic
Max(a, b) == IF a >= b THEN a ELSE b

Min(a, b) == IF a <= b THEN a ELSE b

Abs(a) == IF a < 0 THEN -a ELSE a

\* round(n / d) for n >= 0, d > 0; a tie goes to the even neighbour.  Python's
\* round(x, 2) rounds the binary value of x, so an exact decimal tie is decided
\* there by the float's representation error; no property below depends on
\* which neighbour a tie takes.
RoundDiv(n, d) ==
    LET q == n \div d
        r == n % d
    IN  IF 2 * r > d THEN q + 1
        ELSE IF 2 * r < d THEN q
        ELSE IF q % 2 = 0 THEN q ELSE q + 1

\* round(amount * pct / 100, 2) on an amount in cents and a rate in hundredths.
RoundCents(amount, pct) == RoundDiv(amount * pct, 100)

\* np.clip(x, lo, hi)
Clip(x, lo, hi) == Max(lo, Min(hi, x))

\* -------------------------------------------------------------- formatting
DigitChar(d) == CASE d = 0 -> "0" [] d = 1 -> "1" [] d = 2 -> "2" [] d = 3 -> "3"
                  [] d = 4 -> "4" [] d = 5 -> "5" [] d = 6 -> "6" [] d = 7 -> "7"
                  [] d = 8 -> "8" [] d = 9 -> "9"

RECURSIVE DecimalDigits(_)
\* str(n) for n >= 0, as a sequence of characters.
DecimalDigits(n) ==
    IF n < 10 THEN <<DigitChar(n)>>
    ELSE Append(DecimalDigits(n \div 10), DigitChar(n % 10))

RECURSIVE ZeroPad(_, _)
\* format(n, "0<width>d"): zeros on the left up to width, never truncating.
ZeroPad(s, width) == IF Len(s) >= width THEN s ELSE ZeroPad(<<"0">> \o s, width)

\* f"CLM{id:08d}"
ClaimNumber(id) == <<"C", "L", "M">> \o ZeroPad(DecimalDigits(id), ClaimNumberWidth)

\* ---------------------------------------------------------------- calendar
CalendarYears == 2019..2026

IsLeap(y) == y % 4 = 0 /\ (y % 100 # 0 \/ y % 400 = 0)

DaysInMonth(y, m) ==
    IF m = 2 THEN (IF IsLeap(y) THEN 29 ELSE 28)
    ELSE IF m \in {4, 6, 9, 11} THEN 30 ELSE 31

\* Days of a common year before the first of each month (datetime's _DAYS_BEFORE_MONTH).
CumulativeDays == <<0, 31, 59, 90, 120, 151, 181, 212, 243, 273, 304, 334>>

\* Days of year y before the first of month m.
DaysBeforeMonth(y, m) == CumulativeDays[m] + (IF m > 2 /\ IsLeap(y) THEN 1 ELSE 0)

DaysBeforeYear(y) ==
    (y - 1) * 365 + ((y - 1) \div 4) - ((y - 1) \div 100) + ((y - 1) \div 400)

\* date.toordinal()
ToOrdinal(dt) == DaysBeforeYear(dt.year) + DaysBeforeMonth(dt.year, dt.month) + dt.day

YearOfOrdinal(n) ==
    CHOOSE y \in CalendarYears : DaysBeforeYear(y) < n /\ n <= DaysBeforeYear(y + 1)

\* The month holding day k (1..366) of year y.
MonthOfDay(y, k) ==
    CHOOSE m \in 1..12 :
        DaysBeforeMonth(y, m) < k /\ k <= DaysBeforeMonth(y, m) + DaysInMonth(y, m)

DateOfDay(y, m, k) == [year |-> y, month |-> m, day |-> k - DaysBeforeMonth(y, m)]

DateInYear(y, k) == DateOfDay(y, MonthOfDay(y, k), k)

FromOrdinalIn(y, n) == DateInYear(y, n - DaysBeforeYear(y))

\* date.fromordinal(n)
FromOrdinal(n) == FromOrdinalIn(YearOfOrdinal(n), n)

\* dt + timedelta(days=n)
AddDays(dt, n) == FromOrdinal(ToOrdinal(dt) + n)

\* dt1 <= dt2 on datetimes
DateLE(a, b) ==
    \/ a.year < b.year
    \/ a.year = b.year /\ a.month < b.month
    \/ a.year = b.year /\ a.month = b.month /\ a.day <= b.day


\* ------------------------------------------------------ generate_claims rows
\* A claim's draws, in the order generate_claims makes them:
\*   policy_id       np.random.randint(1, policy_count + 1)
\*   year            np.random.choice([2020..2024], p=...)
\*   month, day      np.random.randint(1, 13), np.random.randint(1, 29)
\*   delay_halfdays  np.random.exponential(30), a real number of days, counted
\*                   here in half days so that int() has something to truncate
\*   initial         np.round(np.random.lognormal(8.5, 1.5), 2), in cents
\*   z               the standard-normal deviate behind np.random.normal(mean, sd)
\*                   in get_development_factor, in whole standard deviations
\*   pattern         np.random.beta(2, 5), in hundredths
\*   lob, geo        np.random.choice(...)
\* claim_cause and claim_attributes are drawn too; no property below reads them
\* and the rows here leave them out.
AccidentYears == 2020..2024

LinesOfBusiness == {"Motor", "Property", "Life", "Health", "Pension"}

Geographies == {"CA", "TX", "FL", "NY", "IL", "PA", "OH", "GA", "NC", "MI", "Other"}

\* The values np.random.randint(1, policy_count + 1) can return.
PolicyIds(policy_count) == 1..policy_count

ReportLagDaysUnclipped(delay_halfdays) == Max(0, delay_halfdays) \div 2

\* int(np.clip(delay, 0, 365)): the report lag in whole days.
ReportLagDays(delay_halfdays) == Clip(delay_halfdays, 0, 2 * MaxDelayDays) \div 2

DevelopmentMonthIgnoringYear(acc, rep) == Max(1, (rep.month - acc.month) + 1)

DevelopmentMonthNoPlusOne(acc, rep) ==
    Max(1, (rep.year - acc.year) * 12 + (rep.month - acc.month))

\* max(1, months + 1) with months = year difference * 12 + month difference.
DevelopmentMonth(acc, rep) ==
    Max(1, (rep.year - acc.year) * 12 + (rep.month - acc.month) + 1)

\* get_development_factor(dev_month): np.random.normal(mean, sd) = mean + sd * z,
\* in hundredths.
DevelopmentFactor(dev_month, z) ==
    IF dev_month <= 12 THEN 95 + 10 * z
    ELSE IF dev_month <= 24 THEN 102 + 5 * z
    ELSE IF dev_month <= 36 THEN 101 + 3 * z
    ELSE 100 + 2 * z

DevelopedAmountNoFloor(initial, factor) == RoundCents(initial, factor)

\* round(initial * max(0.1, factor), 2)
DevelopedAmount(initial, factor) == RoundCents(initial, Max(FactorFloor, factor))

\* round(developed * pattern, 2)
PaidAmount(developed, pattern) == RoundCents(developed, pattern)

OutstandingReserveSwapped(developed, paid) == Max(0, paid - developed)

\* max(0, developed - paid)
OutstandingReserve(developed, paid) == Max(0, developed - paid)

ClaimStatusStrict(outstanding) ==
    IF outstanding < ClosedThreshold THEN "Closed"
    ELSE IF outstanding < OpenThreshold THEN "Open"
    ELSE "Reserved"

\* 'Closed' if outstanding <= 10, 'Open' if outstanding <= 1000, else 'Reserved'.
ClaimStatus(outstanding) ==
    IF outstanding <= ClosedThreshold THEN "Closed"
    ELSE IF outstanding <= OpenThreshold THEN "Open"
    ELSE "Reserved"

ClaimIdsFromZero(total_claims) == [i \in 1..total_claims |-> i - 1]

\* range(1, total_claims + 1)
ClaimIds(total_claims) == [i \in 1..total_claims |-> i]

\* One row of the DataFrame generate_claims returns.
ClaimRow(id, d) ==
    LET acc == [year |-> d.year, month |-> d.month, day |-> d.day]
        rep == AddDays(acc, ReportLagDays(d.delay_halfdays))
        dev == DevelopmentMonth(acc, rep)
        developed == DevelopedAmount(d.initial, DevelopmentFactor(dev, d.z))
        paid == PaidAmount(developed, d.pattern)
        outstanding == OutstandingReserve(developed, paid)
    IN  [claim_id |-> id,
         claim_number |-> ClaimNumber(id),
         policy_id |-> d.policy_id,
         accident_date |-> acc,
         report_date |-> rep,
         accident_year |-> acc.year,
         development_month |-> dev,
         line_of_business |-> d.lob,
         geography |-> d.geo,
         claim_status |-> ClaimStatus(outstanding),
         initial_reserve |-> d.initial,
         paid_amount |-> paid,
         outstanding_reserve |-> outstanding,
         incurred_amount |-> developed]

\* The table generate_claims(policy_count, total_claims) returns when its draws
\* are d[1..total_claims].
GenerateClaimsTable(total_claims, d) ==
    LET ids == ClaimIds(total_claims)
    IN  [i \in 1..total_claims |-> ClaimRow(ids[i], d[i])]

\* ---------------------------------------------------- generate_reserves rows
\* claims_df.groupby([...]) sorts the group keys: strings by code point, years
\* by value.
LobOrder == <<"Health", "Life", "Motor", "Pension", "Property">>

GeoOrder == <<"CA", "FL", "GA", "IL", "MI", "NC", "NY", "OH", "Other", "PA", "TX">>

Rank(x, order) == CHOOSE i \in 1..Len(order) : order[i] = x

CohortKeyNoGeography(row) == <<row.line_of_business, "CA", row.accident_year>>

\* The groupby key of a claim: (line_of_business, geography, accident_year).
CohortKey(row) == <<row.line_of_business, row.geography, row.accident_year>>

KeyLess(a, b) ==
    \/ Rank(a[1], LobOrder) < Rank(b[1], LobOrder)
    \/ a[1] = b[1] /\ Rank(a[2], GeoOrder) < Rank(b[2], GeoOrder)
    \/ a[1] = b[1] /\ a[2] = b[2] /\ a[3] < b[3]

RECURSIVE SortedKeys(_)
SortedKeys(keys) ==
    IF keys = {} THEN <<>>
    ELSE LET first == CHOOSE k \in keys : \A j \in keys : j = k \/ KeyLess(k, j)
         IN  <<first>> \o SortedKeys(keys \ {first})

RECURSIVE SumOver(_, _)
\* The sum of f[i] over i in idx.
SumOver(f, idx) ==
    IF idx = {} THEN 0
    ELSE LET i == CHOOSE j \in idx : TRUE
         IN  f[i] + SumOver(f, idx \ {i})

\* .agg({...}) on the group of one key: nunique, count and the three sums.
Aggregate(rows, key) ==
    LET idx == {i \in 1..Len(rows) : CohortKey(rows[i]) = key}
    IN  [line_of_business |-> key[1],
         geography |-> key[2],
         cohort_year |-> key[3],
         policy_count |-> Cardinality({rows[i].policy_id : i \in idx}),
         claim_count |-> Cardinality(idx),
         total_incurred |-> SumOver([i \in 1..Len(rows) |-> rows[i].incurred_amount], idx),
         total_paid |-> SumOver([i \in 1..Len(rows) |-> rows[i].paid_amount], idx),
         total_outstanding |->
             SumOver([i \in 1..Len(rows) |-> rows[i].outstanding_reserve], idx)]

ContractGroupsPhantom(rows) ==
    << [line_of_business |-> "Motor", geography |-> "CA", cohort_year |-> 2020,
        policy_count |-> 0, claim_count |-> 0, total_incurred |-> 0, total_paid |-> 0,
        total_outstanding |-> 0] >>

\* contract_groups after the groupby and reset_index: one row per key, sorted.
ContractGroups(rows) ==
    LET keys == SortedKeys({CohortKey(rows[i]) : i \in 1..Len(rows)})
    IN  [k \in 1..Len(keys) |-> Aggregate(rows, keys[k])]

\* A cohort's draws, in the order generate_reserves makes them:
\*   quarters_back       np.random.randint(0, 8)
\*   duration_halfyears  np.random.normal(15, 5) / (20, 8) / (3, 1) by line, a real
\*                       number of years, counted here in half years
\*   premium_ratio       np.random.uniform(1.10, 1.20), in hundredths
\*   ra_rate             np.random.uniform(0.05, 0.15), in hundredths
\*   acq_rate            np.random.uniform(0.10, 0.25), in hundredths
\*   months_pos          where np.random.randint(lo, hi) falls in lo..hi-1, in hundredths
\*   remaining_ratio     np.random.uniform(0.5, 1.0), in hundredths
\*   confidence          np.random.choice([0.75, 0.85, 0.95]), in hundredths
\*   noise               see NetMarginSign
BaseDate == [year |-> 2024, month |-> 12, day |-> 31]

ValuationDateNotSnapped(quarters_back) == FromOrdinal(ToOrdinal(BaseDate) - quarters_back * 90)

\* base_date - timedelta(days=quarters_back * 90), snapped by month range.
ValuationDate(quarters_back) ==
    LET raw == FromOrdinal(ToOrdinal(BaseDate) - quarters_back * 90)
    IN  IF raw.month <= 3 THEN [year |-> raw.year, month |-> 3, day |-> 31]
        ELSE IF raw.month <= 6 THEN [year |-> raw.year, month |-> 6, day |-> 30]
        ELSE IF raw.month <= 9 THEN [year |-> raw.year, month |-> 9, day |-> 30]
        ELSE [year |-> raw.year, month |-> 12, day |-> 31]

\* discount_rates.get(lob, 0.04), in thousandths.
DiscountRate(lob) ==
    CASE lob = "Motor" -> 45
      [] lob = "Property" -> 42
      [] lob = "Life" -> 38
      [] lob = "Health" -> 40
      [] lob = "Pension" -> 35
      [] OTHER -> 40

\* max(0.5, duration), in half years.
FlooredDuration(duration_halfyears) == Max(1, duration_halfyears)

\* The durations, in half years, for which PvFactor is tabulated.
DurationGrid == <<1, 2, 6, 30, 40>>

\* 1 / (1 + rate) ** duration in hundredths, for rate in thousandths and the
\* durations of DurationGrid: the values Python computes, rounded.
PvFactor(rate, duration_halfyears) ==
    LET col == Rank(duration_halfyears, DurationGrid)
    IN  CASE rate = 35 -> <<98, 97, 90, 60, 50>>[col]
          [] rate = 38 -> <<98, 96, 89, 57, 47>>[col]
          [] rate = 40 -> <<98, 96, 89, 56, 46>>[col]
          [] rate = 42 -> <<98, 96, 88, 54, 44>>[col]
          [] rate = 45 -> <<98, 96, 88, 52, 41>>[col]

\* round(total_incurred * pv_factor, 2)
PvClaims(total_incurred, pv_factor) == RoundDiv(total_incurred * pv_factor, 100)

\* round(pv_claims * premium_ratio, 2), on the unrounded pv_claims.
PvPremiums(total_incurred, pv_factor, premium_ratio) ==
    RoundDiv(total_incurred * pv_factor * premium_ratio, 10000)

\* pv_premiums - pv_claims - acq_costs - risk_adj, in cents.
NetMargin(pv_premiums, pv_claims, acq_costs, risk_adj) ==
    pv_premiums - pv_claims - acq_costs - risk_adj

\* The code evaluates the net margin in binary floating point on the four stored
\* amounts, and branches on net_margin > 0 before rounding it.  When the
\* amounts differ by a cent or more the float has the sign of the exact
\* difference and rounds to it.  When they cancel exactly in decimal, the float is
\* 0.0 or a residual of either sign far below a cent: PositiveResiduals and
\* NegativeResiduals list quadruples (pv_premiums, pv_claims, acq_costs,
\* risk_adj), in cents, for which Python 3 evaluates a/100 - b/100 - c/100 - d/100
\* to a positive or a negative float, ZeroResiduals those for which it is 0.0.
\* For a cancelling quadruple in none of the lists the residual is the draw
\* "noise": any of the three outcomes.
PositiveResiduals ==
    {<<5, 4, 0, 1>>, <<5, 4, 1, 0>>, <<7, 6, 1, 0>>, <<10, 9, 1, 0>>, <<11, 9, 1, 1>>,
     <<11, 9, 2, 0>>, <<103, 86, 10, 7>>, <<104, 90, 10, 4>>, <<106, 88, 11, 7>>,
     <<107, 89, 11, 7>>, <<108, 90, 11, 7>>, <<109, 91, 11, 7>>, <<650, 542, 65, 43>>,
     <<1094, 912, 109, 73>>}

NegativeResiduals ==
    {<<3, 2, 1, 0>>, <<6, 5, 1, 0>>, <<11, 10, 1, 0>>, <<12, 10, 1, 1>>, <<12, 10, 2, 0>>,
     <<57, 49, 6, 2>>, <<59, 49, 6, 4>>, <<62, 52, 6, 4>>, <<65, 54, 6, 5>>,
     <<72, 60, 7, 5>>, <<118, 98, 12, 8>>, <<593, 494, 59, 40>>, <<684, 570, 68, 46>>,
     <<1003, 836, 100, 67>>, <<1026, 855, 103, 68>>, <<1117, 931, 112, 74>>}

ZeroResiduals == {<<0, 0, 0, 0>>, <<1, 1, 0, 0>>, <<2, 2, 0, 0>>, <<4, 4, 0, 0>>}

\* The sign of the float net_margin: 1, 0 or -1.
NetMarginSign(pv_premiums, pv_claims, acq_costs, risk_adj, noise) ==
    LET cents == NetMargin(pv_premiums, pv_claims, acq_costs, risk_adj)
        q == <<pv_premiums, pv_claims, acq_costs, risk_adj>>
    IN  IF cents > 0 THEN 1
        ELSE IF cents < 0 THEN -1
        ELSE IF q \in PositiveResiduals THEN 1
        ELSE IF q \in NegativeResiduals THEN -1
        ELSE IF q \in ZeroResiduals THEN 0
        ELSE noise

\* round(net_margin, 2) in the net_margin > 0 branch, else 0.0
InitialCsm(sign, cents) == IF sign > 0 THEN cents ELSE 0

LossComponentAlways(sign, cents) == Abs(cents)

\* 0.0 in the net_margin > 0 branch, else round(abs(net_margin), 2)
LossComponent(sign, cents) == IF sign > 0 THEN 0 ELSE Abs(cents)

ProfitabilityClass(sign) == IF sign > 0 THEN "Profitable" ELSE "Onerous"

\* np.random.randint(lo, hi) by line of business: Life 120..479, Pension
\* 240..599, any other line 12..59.
CoverageMonths(lob, months_pos) ==
    LET lo == IF lob = "Life" THEN 120 ELSE IF lob = "Pension" THEN 240 ELSE 12
        hi == IF lob = "Life" THEN 480 ELSE IF lob = "Pension" THEN 600 ELSE 60
    IN  lo + ((hi - lo) * months_pos) \div 100

\* int(total_units * remaining_ratio)
CoverageUnitsCurrent(total_units, remaining_ratio) == (total_units * remaining_ratio) \div 100

CsmAmortizationAnnual(initial_csm, current_units, total_units) ==
    IF total_units > 0 THEN RoundDiv(initial_csm * current_units, total_units)
    ELSE 0

\* round(initial_csm * (current / total) * 0.25, 2) when total > 0, else 0.0
CsmAmortization(initial_csm, current_units, total_units) ==
    IF total_units > 0 THEN RoundDiv(initial_csm * current_units, 4 * total_units)
    ELSE 0

BestEstimateLiabilityNoRisk(pv_claims, risk_adj) == pv_claims

\* round(pv_claims + risk_adj, 2)
BestEstimateLiability(pv_claims, risk_adj) == pv_claims + risk_adj

LiabilityRemainingCoveragePlusLoss(bel, csm, loss) == bel + csm + loss

\* round(bel + csm - loss, 2)
LiabilityRemainingCoverage(bel, csm, loss) == bel + csm - loss

GuardedRatioCents(numerator, pv_claims) == RoundDiv(numerator * 10000, Max(1, pv_claims))

\* round(numerator / max(1, pv_claims), 4) in ten-thousandths; max(1, .) is on
\* dollars, 100 cents.
GuardedRatio(numerator, pv_claims) == RoundDiv(numerator * 10000, Max(100, pv_claims))

\* (1 + rate) ** duration in hundredths, the denominator of pv_factor, for rate
\* in thousandths and the durations of DurationGrid.
PvDenominator(rate, duration_halfyears) ==
    LET col == Rank(duration_halfyears, DurationGrid)
    IN  CASE rate = 35 -> <<102, 103, 111, 168, 199>>[col]
          [] rate = 38 -> <<102, 104, 112, 175, 211>>[col]
          [] rate = 40 -> <<102, 104, 112, 180, 219>>[col]
          [] rate = 42 -> <<102, 104, 113, 185, 228>>[col]
          [] rate = 45 -> <<102, 104, 114, 194, 241>>[col]

DivisionSiteNames == {"pv_factor", "csm_amortization", "reserve_adequacy_ratio", "risk_margin"}

DivisionSitesUnguardedRatio(lob, duration_halfyears, total_units, pv_claims) ==
    [site \in DivisionSiteNames |->
        CASE site = "pv_factor" ->
               [guard |-> "none", divides |-> TRUE,
                divisor |-> PvDenominator(DiscountRate(lob), FlooredDuration(duration_halfyears))]
          [] site = "csm_amortization" ->
               [guard |-> "positive_test", divides |-> total_units > 0,
                divisor |-> total_units]
          [] site = "reserve_adequacy_ratio" ->
               [guard |-> "none", divides |-> TRUE, divisor |-> pv_claims]
          [] site = "risk_margin" ->
               [guard |-> "max_1", divides |-> TRUE, divisor |-> Max(100, pv_claims)]]

\* The divisions generate_reserves makes for one cohort: where, behind which
\* guard, whether the division is made, and by what. pv_factor divides 1 by
\* (1 + rate) ** duration with no guard on the quotient (max(0.5, .) floors
\* the exponent); csm_amortization divides by coverage_units_total only if it
\* is > 0; the two ratios divide by max(1, pv_claims), a dollar being 100 cents.
DivisionSites(lob, duration_halfyears, total_units, pv_claims) ==
    [site \in DivisionSiteNames |->
        CASE site = "pv_factor" ->
               [guard |-> "none", divides |-> TRUE,
                divisor |-> PvDenominator(DiscountRate(lob), FlooredDuration(duration_halfyears))]
          [] site = "csm_amortization" ->
               [guard |-> "positive_test", divides |-> total_units > 0,
                divisor |-> total_units]
          [] site = "reserve_adequacy_ratio" ->
               [guard |-> "max_1", divides |-> TRUE, divisor |-> Max(100, pv_claims)]
          [] site = "risk_margin" ->
               [guard |-> "max_1", divides |-> TRUE, divisor |-> Max(100, pv_claims)]]

\* One row of the DataFrame generate_reserves returns: the aggregates of the
\* cohort and the columns derived from them and from the cohort's draws g.
\* contract_group_id and the JSON text of reserve_metadata are left out.
ReserveRow(agg, g) ==
    LET lob == agg.line_of_business
        pv_factor == PvFactor(DiscountRate(lob), FlooredDuration(g.duration_halfyears))
        pv_claims == PvClaims(agg.total_incurred, pv_factor)
        pv_premiums == PvPremiums(agg.total_incurred, pv_factor, g.premium_ratio)
        risk_adj == RoundCents(pv_claims, g.ra_rate)
        acq_costs == RoundCents(pv_premiums, g.acq_rate)
        cents == NetMargin(pv_premiums, pv_claims, acq_costs, risk_adj)
        sign == NetMarginSign(pv_premiums, pv_claims, acq_costs, risk_adj, g.noise)
        csm == InitialCsm(sign, cents)
        loss == LossComponent(sign, cents)
        total_units == agg.policy_count * CoverageMonths(lob, g.months_pos)
        current_units == CoverageUnitsCurrent(total_units, g.remaining_ratio)
        bel == BestEstimateLiability(pv_claims, risk_adj)
    IN  [line_of_business |-> lob,
         geography |-> agg.geography,
         cohort_year |-> agg.cohort_year,
         policy_count |-> agg.policy_count,
         claim_count |-> agg.claim_count,
         total_incurred |-> agg.total_incurred,
         total_paid |-> agg.total_paid,
         total_outstanding |-> agg.total_outstanding,
         valuation_date |-> ValuationDate(g.quarters_back),
         pv_factor |-> pv_factor,
         pv_claims |-> pv_claims,
         pv_premiums |-> pv_premiums,
         risk_adjustment |-> risk_adj,
         acquisition_costs |-> acq_costs,
         initial_csm |-> csm,
         loss_component |-> loss,
         profitability_class |-> ProfitabilityClass(sign),
         coverage_units_total |-> total_units,
         coverage_units_current |-> current_units,
         csm_amortization |-> CsmAmortization(csm, current_units, total_units),
         best_estimate_liability |-> bel,
         liability_remaining_coverage |-> LiabilityRemainingCoverage(bel, csm, loss),
         reserve_adequacy_ratio |-> GuardedRatio(agg.total_outstanding, pv_claims),
         risk_margin |-> GuardedRatio(risk_adj, pv_claims),
         confidence_level |-> g.confidence]

\* The table generate_reserves(claims_df) returns when its draws are g[1..n],
\* n the number of cohorts.
GenerateReservesTable(rows, g) ==
    LET groups == ContractGroups(rows)
    IN  [k \in 1..Len(groups) |-> ReserveRow(groups[k], g[k])]

\* ------------------------------------------------------------------- state
VARIABLES
    claims,          \* what generate_claims returned
    reserves,        \* what generate_reserves returned
    policies,        \* how generate_policies ended
    imported,        \* the generator modules this process has imported
    npSeedCalls,     \* np.random.seed calls made by this process
    fakerSeedCalls,  \* Faker.seed calls made by this process
    npSeed,          \* the seed numpy's global generator was last given, or its start-up entropy
    fakerSeed,       \* the same for Faker's shared generator
    npPos,           \* variates drawn from numpy's global generator since its last seeding
    fakerPos,        \* values drawn from Faker's shared generator since its last seeding
    hist,            \* this process's imports and calls, in order
    outs,            \* what each of them returned
    prevHist,        \* hist and outs of the previous process
    prevOuts,
    run              \* 1 for the first process, 2 for the second

tables == <<claims, reserves, policies>>

generators == <<imported, npSeedCalls, fakerSeedCalls, npSeed, fakerSeed, npPos, fakerPos>>

logs == <<hist, outs, prevHist, prevOuts, run>>

vars == <<claims, reserves, policies, imported, npSeedCalls, fakerSeedCalls,
          npSeed, fakerSeed, npPos, fakerPos, hist, outs, prevHist, prevOuts, run>>

NoArgs == [policy_count |-> 0, total_claims |-> 0]

NotCalled == [returned |-> FALSE, error |-> "none", args |-> NoArgs, rows |-> <<>>]

Returned(args, rows) == [returned |-> TRUE, error |-> "none", args |-> args, rows |-> rows]

Raised(args, error) == [returned |-> FALSE, error |-> error, args |-> args, rows |-> <<>>]

\* ------------------------------------------------------------ table specs
\* The table-level specifications follow the pipeline of reserves.py's
\* __main__ block and of generate_all.main, generate_claims and then
\* generate_reserves on its result, for every argument and every draw of the
\* sets they are given.  The modules are imported, and the generators' state is
\* abstracted into the choice of the draws.
Modules == {"policies", "claims", "reserves"}

InitImported ==
    /\ claims = NotCalled
    /\ reserves = NotCalled
    /\ policies = NotCalled
    /\ imported = Modules
    /\ npSeedCalls = 3
    /\ fakerSeedCalls = 2
    /\ npSeed = SeedValue
    /\ fakerSeed = SeedValue
    /\ npPos = 0
    /\ fakerPos = 0
    /\ hist = <<>>
    /\ outs = <<>>
    /\ prevHist = <<>>
    /\ prevOuts = <<>>
    /\ run = 1

\* generate_claims(policy_count, total_claims), its draws taken from D[policy_count].
generate_claims(Ps, Cs, D) ==
    /\ "claims" \in imported
    /\ ~claims.returned
    /\ \E policy_count \in Ps, total_claims \in Cs :
         \E d \in [1..total_claims -> D[policy_count]] :
            claims' = Returned([policy_count |-> policy_count, total_claims |-> total_claims],
                               GenerateClaimsTable(total_claims, d))
    /\ UNCHANGED <<reserves, policies, generators, logs>>

\* generate_reserves(claims_df) on the table generate_claims returned, its draws
\* taken from G.
generate_reserves(G) ==
    /\ "reserves" \in imported
    /\ claims.returned
    /\ ~reserves.returned
    /\ \E g \in [1..Len(ContractGroups(claims.rows)) -> G] :
         reserves' = Returned(NoArgs, GenerateReservesTable(claims.rows, g))
    /\ UNCHANGED <<claims, policies, generators, logs>>

\* Draws of the default specification: tables of up to MaxClaims claims over up
\* to MaxPolicies policies, in cohorts that differ by line and by geography.
TableDraws(policy_count) ==
    [policy_id : PolicyIds(policy_count),
     year : {2023}, month : {6}, day : {15},
     delay_halfdays : {0},
     initial : {1000, 50000},
     z : {0},
     pattern : {30},
     lob : {"Motor", "Life"}, geo : {"CA", "TX"}]

TableCohortDraws ==
    [quarters_back : {0}, duration_halfyears : {6}, premium_ratio : {115},
     ra_rate : {5, 15}, acq_rate : {10}, months_pos : {0}, remaining_ratio : {50},
     confidence : {85}, noise : {0}]

Next ==
    \/ generate_claims(1..MaxPolicies, 1..MaxClaims, [p \in 1..MaxPolicies |-> TableDraws(p)])
    \/ generate_reserves(TableCohortDraws)

Spec == InitImported /\ [][Next]_vars

\* Draws of the cohort specification: one claim, so one cohort, of a small
\* incurred amount (0 included), and every combination of the draws that decide
\* the net margin.
CohortClaimDraws(policy_count) ==
    [policy_id : PolicyIds(policy_count),
     year : {2023}, month : {6}, day : {15},
     delay_halfdays : {0},
     initial : {1, 4, 10, 100, 1000},
     z : {-9, 0},
     pattern : {30},
     lob : {"Motor", "Life", "Pension"}, geo : {"CA"}]

CohortDraws ==
    [quarters_back : {0}, duration_halfyears : {-1, 2, 6, 30}, premium_ratio : {110, 115, 120},
     ra_rate : {5, 8, 10, 15}, acq_rate : {10, 20, 25}, months_pos : {0},
     remaining_ratio : {50, 99}, confidence : {85}, noise : {-1, 0, 1}]

NextCohort ==
    \/ generate_claims({1}, {1}, [p \in {1} |-> CohortClaimDraws(p)])
    \/ generate_reserves(CohortDraws)

SpecCohort == InitImported /\ [][NextCohort]_vars

\* Draws of the row specification: one claim, every combination of the amount
\* draws, in both development buckets a claim can fall in; the initial reserves
\* include those that put the outstanding reserve on and just above 10 and 1000.
RowDraws(policy_count) ==
    [policy_id : PolicyIds(policy_count),
     year : {2023}, month : {6}, day : {15},
     delay_halfdays : {0, 61, 2 * MaxDelayDays},
     initial : {1, 4, 5, 999, 1111, 10000, 10010, 100000, 250000, 1000000, 1000010},
     z : {-10, -9, -5, -1, 0, 1, 3},
     pattern : {0, 1, 30, 50, 99},
     lob : {"Motor"}, geo : {"CA"}]

NextRow == generate_claims({1}, {1}, [p \in {1} |-> RowDraws(p)])

SpecRow == InitImported /\ [][NextRow]_vars

\* Draws of the date specification: one claim, every accident year and month the
\* code can draw with the first, a middle and the last day it can draw, every
\* whole-day report delay up to the clip and a few beyond and between.
DateDays == {1, 15, 28}

DateDelays == {2 * k : k \in 0..MaxDelayDays} \cup {1, 59, 2 * MaxDelayDays + 1, 900}

DateDraws(policy_count) ==
    [policy_id : PolicyIds(policy_count),
     year : AccidentYears, month : 1..12, day : DateDays,
     delay_halfdays : DateDelays,
     initial : {1000}, z : {0}, pattern : {30},
     lob : {"Motor"}, geo : {"CA"}]

NextDates == generate_claims({1}, {1}, [p \in {1} |-> DateDraws(p)])

SpecDates == InitImported /\ [][NextDates]_vars

\* ---------------------------------------------------------- process spec
\* A Python process that imports the generator modules and calls the
\* generators, and a second process that performs the same imports and calls
\* again.  Here the draws are not inputs: they are read from the generators,
\* whose state is the seed last given and the number of variates drawn since.

\* The state of a generator nobody has seeded, taken from the operating system.
Entropy == {7, 11}

\* The u-th variate, in hundredths of the unit interval, of a generator seeded
\* with seed: a small mixing function stands for the Mersenne Twister, of which
\* the model keeps that a variate is a function of the seed and the position.
Stream(seed, pos) ==
    ((seed * 31 + 17) * (pos * 53 + 29) + (pos * pos) * 7 + (pos \div 3) * 13) % 100

SeedAtImportKept(old) == old

\* np.random.seed(42) and Faker.seed(42) at import: whatever the state was, the
\* generator restarts from the seed 42.
SeedAtImport(old) == SeedValue

FakerModulesOnlyPolicies == {"policies"}

\* The modules whose import calls Faker.seed(42); all three call np.random.seed(42).
FakerModules == {"policies", "claims"}

\* np.random.choice(values, p = weights): the value whose cumulative weight, in
\* hundredths, first exceeds u.
WeightedChoice(u, values, cumulative) ==
    values[CHOOSE k \in 1..Len(values) :
              /\ u < cumulative[k]
              /\ \A j \in 1..(k - 1) : u >= cumulative[j]]

\* A continuous distribution coarsened to a few equally likely values.
Step(u, values) == values[1 + (u * Len(values)) \div 100]

\* The order in which generate_claims draws: each entry is one vectorised draw
\* of total_claims variates, or one loop drawing its entries for each claim in turn.
ClaimDrawBlocks ==
    << <<"policy_id">>, <<"year">>, <<"month", "day">>, <<"delay">>, <<"initial">>,
       <<"z">>, <<"pattern">>, <<"lob">>, <<"cause">>, <<"geo">>,
       <<"complexity", "legal_involvement", "catastrophe_related", "salvage_potential">> >>

\* The same for generate_reserves, per cohort.
ReserveDrawBlocks ==
    << <<"quarters_back">>, <<"duration", "premium_ratio">>, <<"ra_rate">>, <<"acq_rate">>,
       <<"months", "remaining_ratio">>, <<"confidence">> >>

RECURSIVE BlockWidths(_, _)
BlockWidths(blocks, n) == IF n = 0 THEN 0 ELSE BlockWidths(blocks, n - 1) + Len(blocks[n])

DrawsPerRow(blocks) == BlockWidths(blocks, Len(blocks))

\* How many variates the call has drawn before it draws `name` for row i of count rows.
DrawOffset(blocks, name, i, count) ==
    LET b == CHOOSE k \in 1..Len(blocks) : \E j \in 1..Len(blocks[k]) : blocks[k][j] = name
        j == CHOOSE j \in 1..Len(blocks[b]) : blocks[b][j] = name
    IN  BlockWidths(blocks, b - 1) * count + Len(blocks[b]) * (i - 1) + (j - 1)

\* The draws of claim i of generate_claims(policy_count, total_claims) when the
\* generator stands at (seed, pos) on entry.
ClaimDrawsAt(seed, pos, policy_count, total_claims) ==
    [i \in 1..total_claims |->
        LET u(name) == Stream(seed, pos + DrawOffset(ClaimDrawBlocks, name, i, total_claims))
        IN  [policy_id |-> 1 + (u("policy_id") * policy_count) \div 100,
             year |-> WeightedChoice(u("year"), <<2020, 2021, 2022, 2023, 2024>>,
                                     <<15, 33, 53, 78, 100>>),
             month |-> 1 + (u("month") * 12) \div 100,
             day |-> 1 + (u("day") * 28) \div 100,
             delay_halfdays |-> Step(u("delay"), <<0, 13, 41, 90, 200, 800>>),
             initial |-> Step(u("initial"), <<1000, 5000, 20000, 50000>>),
             z |-> Step(u("z"), <<-2, -1, 0, 0, 1, 2>>),
             pattern |-> Step(u("pattern"), <<5, 15, 30, 50>>),
             lob |-> WeightedChoice(u("lob"), <<"Motor", "Property", "Life", "Health", "Pension">>,
                                    <<40, 70, 85, 95, 100>>),
             geo |-> WeightedChoice(u("geo"),
                         <<"CA", "TX", "FL", "NY", "IL", "PA", "OH", "GA", "NC", "MI", "Other">>,
                         <<12, 22, 30, 38, 44, 49, 54, 58, 62, 66, 100>>)]]

\* The draws of cohort k of generate_reserves on the cohorts `groups`.
ReserveDrawsAt(seed, pos, groups) ==
    [k \in 1..Len(groups) |->
        LET u(name) == Stream(seed, pos + DrawOffset(ReserveDrawBlocks, name, k, Len(groups)))
            lob == groups[k].line_of_business
        IN  [quarters_back |-> (u("quarters_back") * 8) \div 100,
             duration_halfyears |->
                 IF lob = "Life" THEN Step(u("duration"), <<30, 30, 40>>)
                 ELSE IF lob = "Pension" THEN Step(u("duration"), <<30, 40, 40>>)
                 ELSE Step(u("duration"), <<2, 6, 6>>),
             premium_ratio |-> 110 + (u("premium_ratio") * 10) \div 100,
             ra_rate |-> 5 + (u("ra_rate") * 10) \div 100,
             acq_rate |-> 10 + (u("acq_rate") * 15) \div 100,
             months_pos |-> u("months"),
             remaining_ratio |-> 50 + (u("remaining_ratio") * 50) \div 100,
             confidence |-> WeightedChoice(u("confidence"), <<75, 85, 95>>, <<20, 80, 100>>),
             noise |-> 0]]

\* The variates the expiry-date loop of generate_policies draws for n policies:
\* np.random.random() for each, and np.random.randint as well when that is not
\* above 0.1.
RECURSIVE ExpiryDraws(_, _, _)
ExpiryDraws(seed, pos, n) ==
    IF n = 0 THEN 0
    ELSE LET k == IF Stream(seed, pos) < 10 THEN 2 ELSE 1
         IN  k + ExpiryDraws(seed, pos + k, n - 1)

\* The variates generate_policies(count) has drawn from numpy's generator when
\* it reaches the customer ages: the expiry dates, the lines of business, the
\* sums insured, the premium rates, the geographies, and one gamma variate.
PolicyDrawsToAges(seed, pos, count) == ExpiryDraws(seed, pos, count) + 4 * count + 1

Event(op, module, args, input) ==
    [op |-> op, module |-> module, args |-> args, input |-> input,
     np_seed |-> npSeed, np_pos |-> npPos, faker_seed |-> fakerSeed, faker_pos |-> fakerPos]

\* What the caller did, without the state it found the generators in.
EventCall(e) == [op |-> e.op, module |-> e.module, args |-> e.args, input |-> e.input]

IsCall(e) == e.op # "import"

CallsMade == Len(SelectSeq(hist, IsCall))

\* The second process repeats the first, step by step.
Repeats(e) ==
    run = 2 => /\ Len(hist) < Len(prevHist)
               /\ EventCall(prevHist[Len(hist) + 1]) = EventCall(e)

Log(e, out) ==
    /\ Repeats(e)
    /\ hist' = Append(hist, e)
    /\ outs' = Append(outs, out)
    /\ UNCHANGED <<prevHist, prevOuts, run>>

InitProcess ==
    /\ claims = NotCalled
    /\ reserves = NotCalled
    /\ policies = NotCalled
    /\ imported = {}
    /\ npSeedCalls = 0
    /\ fakerSeedCalls = 0
    /\ \E e \in Entropy : npSeed = e /\ fakerSeed = e
    /\ npPos = 0
    /\ fakerPos = 0
    /\ hist = <<>>
    /\ outs = <<>>
    /\ prevHist = <<>>
    /\ prevOuts = <<>>
    /\ run = 1

\* The first import of a module runs its top level: Faker.seed(42) in policies
\* and claims, np.random.seed(42) in all three.
ImportModule(m) ==
    /\ m \notin imported
    /\ imported' = imported \cup {m}
    /\ npSeed' = SeedAtImport(npSeed)
    /\ npPos' = 0
    /\ npSeedCalls' = npSeedCalls + 1
    /\ IF m \in FakerModules
       THEN /\ fakerSeed' = SeedAtImport(fakerSeed)
            /\ fakerPos' = 0
            /\ fakerSeedCalls' = fakerSeedCalls + 1
       ELSE UNCHANGED <<fakerSeed, fakerPos, fakerSeedCalls>>
    /\ Log(Event("import", m, NoArgs, <<>>), Returned(NoArgs, <<>>))
    /\ UNCHANGED tables

\* generate_policies(count): the effective dates come from Faker, the columns up
\* to the geographies from numpy, and np.random.gamma(2, 20), called without a
\* size, returns a Python float, on which .astype raises AttributeError.
CallGeneratePolicies(count) ==
    /\ "policies" \in imported
    /\ CallsMade < MaxCalls
    /\ LET args == [policy_count |-> count, total_claims |-> 0]
           out == Raised(args, "AttributeError")
       IN  /\ policies' = out
           /\ Log(Event("generate_policies", "policies", args, <<>>), out)
    /\ fakerPos' = fakerPos + count
    /\ npPos' = npPos + PolicyDrawsToAges(npSeed, npPos, count)
    /\ UNCHANGED <<claims, reserves, imported, npSeedCalls, fakerSeedCalls, npSeed, fakerSeed>>

\* generate_claims(policy_count, total_claims).  Nothing checks the counts: with
\* policy_count < 1 and at least one claim to draw, np.random.randint(1,
\* policy_count + 1, total_claims) raises ValueError (low >= high) before any
\* variate is drawn; with total_claims = 0 every column is empty and the call
\* returns a table of no rows.  (With both counts below 1 the outcome depends on
\* the numpy version; no specification makes that call.)
CallGenerateClaims(policy_count, total_claims) ==
    /\ "claims" \in imported
    /\ CallsMade < MaxCalls
    /\ LET args == [policy_count |-> policy_count, total_claims |-> total_claims]
           d == ClaimDrawsAt(npSeed, npPos, policy_count, total_claims)
           rejected == policy_count < 1 /\ total_claims >= 1
           out == IF rejected THEN Raised(args, "ValueError")
                  ELSE Returned(args, GenerateClaimsTable(total_claims, d))
       IN  /\ claims' = out
           /\ Log(Event("generate_claims", "claims", args, <<>>), out)
           /\ npPos' = IF rejected THEN npPos
                       ELSE npPos + DrawsPerRow(ClaimDrawBlocks) * total_claims
    /\ UNCHANGED <<policies, reserves, imported, npSeedCalls, fakerSeedCalls,
                   npSeed, fakerSeed, fakerPos>>

\* generate_reserves(claims_df) on the table the last generate_claims returned.
CallGenerateReserves ==
    /\ "reserves" \in imported
    /\ claims.returned
    /\ CallsMade < MaxCalls
    /\ LET groups == ContractGroups(claims.rows)
           g == ReserveDrawsAt(npSeed, npPos, groups)
           out == Returned(NoArgs, GenerateReservesTable(claims.rows, g))
       IN  /\ reserves' = out
           /\ Log(Event("generate_reserves", "reserves", NoArgs, claims.rows), out)
           /\ npPos' = npPos + DrawsPerRow(ReserveDrawBlocks) * Len(groups)
    /\ UNCHANGED <<policies, claims, imported, npSeedCalls, fakerSeedCalls,
                   npSeed, fakerSeed, fakerPos>>

\* The process ends and the program is started again: nothing of the first
\* process is left but what the model records of it to compare.
Restart ==
    /\ run = 1
    /\ hist # <<>>
    /\ run' = 2
    /\ prevHist' = hist
    /\ prevOuts' = outs
    /\ hist' = <<>>
    /\ outs' = <<>>
    /\ claims' = NotCalled
    /\ reserves' = NotCalled
    /\ policies' = NotCalled
    /\ imported' = {}
    /\ npSeedCalls' = 0
    /\ fakerSeedCalls' = 0
    /\ \E e \in Entropy : npSeed' = e /\ fakerSeed' = e
    /\ npPos' = 0
    /\ fakerPos' = 0

NextProcess ==
    \/ \E m \in Modules : ImportModule(m)
    \/ \E count \in {1, MaxPolicies} : CallGeneratePolicies(count)
    \/ \E total_claims \in {1, MaxClaims} : CallGenerateClaims(MaxPolicies, total_claims)
    \/ CallGenerateReserves
    \/ Restart

SpecProcess == InitProcess /\ [][NextProcess]_vars

\* Draws of the valuation specification: one claim of any line, and every
\* quarters-back offset, months position and remaining ratio at the ends and in
\* the middle of their ranges, with margins on both sides of zero.
ValuationClaimDraws(policy_count) ==
    [policy_id : PolicyIds(policy_count),
     year : {2023}, month : {6}, day : {15},
     delay_halfdays : {0},
     initial : {1000, 50000},
     z : {0},
     pattern : {30},
     lob : LinesOfBusiness, geo : {"CA"}]

ValuationDraws ==
    [quarters_back : 0..7, duration_halfyears : {6}, premium_ratio : {110, 120},
     ra_rate : {5, 15}, acq_rate : {10, 25}, months_pos : {0, 50, 99},
     remaining_ratio : {50, 75, 99}, confidence : {85}, noise : {0}]

NextValuation ==
    \/ generate_claims({1}, {1}, [p \in {1} |-> ValuationClaimDraws(p)])
    \/ generate_reserves(ValuationDraws)

SpecValuation == InitImported /\ [][NextValuation]_vars

\* Draws of the coverage-units specification: one or two claims on one or two
\* policies, in the three lines with a range of coverage months of their own,
\* the ends of the months ranges and of the remaining ratio, and margins on both
\* sides of zero.
UnitsClaimDraws(policy_count) ==
    [policy_id : PolicyIds(policy_count),
     year : {2023}, month : {6}, day : {15},
     delay_halfdays : {0},
     initial : {100, 1000},
     z : {0},
     pattern : {30},
     lob : {"Life", "Pension", "Motor"}, geo : {"CA"}]

UnitsDraws ==
    [quarters_back : {0}, duration_halfyears : {6}, premium_ratio : {110, 120},
     ra_rate : {5}, acq_rate : {10, 25}, months_pos : {0, 99},
     remaining_ratio : {50, 99}, confidence : {85}, noise : {0}]

NextUnits ==
    \/ generate_claims({2}, {1, 2}, [p \in {2} |-> UnitsClaimDraws(p)])
    \/ generate_reserves(UnitsDraws)

SpecUnits == InitImported /\ [][NextUnits]_vars

\* One process that also calls the generators with counts of zero, and
\* generate_reserves on the empty table generate_claims(P, 0) returns.
NextCounts ==
    \/ \E m \in Modules : ImportModule(m)
    \/ \E count \in {0, 1} : CallGeneratePolicies(count)
    \/ \E total_claims \in {0, 1} : CallGenerateClaims(MaxPolicies, total_claims)
    \/ CallGenerateClaims(0, 1)
    \/ CallGenerateReserves

SpecCounts == InitProcess /\ [][NextCounts]_vars

\* ================================================================ properties
ClaimRows == {claims.rows[i] : i \in DOMAIN claims.rows}

ReserveRows == {reserves.rows[k] : k \in DOMAIN reserves.rows}

\* The net margin of a cohort row, from its stored columns, in cents.
StoredNetMargin(row) ==
    row.pv_premiums - row.pv_claims - row.acquisition_costs - row.risk_adjustment

\* The cancelling quadruple of every cohort the cohort specification reaches is
\* in one of the three lists of residuals, so that no outcome there rests on
\* the draw "noise".
ResidualsListed ==
    \A row \in ReserveRows :
        StoredNetMargin(row) = 0 =>
            <<row.pv_premiums, row.pv_claims, row.acquisition_costs, row.risk_adjustment>>
                \in PositiveResiduals \cup NegativeResiduals \cup ZeroResiduals

\* C1: every claim generate_claims returns has outstanding_reserve =
\* incurred_amount - paid_amount, and outstanding_reserve >= 0 (whole cents).
C1_OutstandingIsIncurredMinusPaid ==
    \A row \in ClaimRows :
        /\ row.outstanding_reserve = row.incurred_amount - row.paid_amount
        /\ row.outstanding_reserve >= 0

C1_Witness ==
    /\ claims.returned
    /\ \E row \in ClaimRows :
         /\ row.paid_amount > 0
         /\ row.outstanding_reserve > 0
         /\ row.incurred_amount # row.initial_reserve

\* C2: for every cohort row generate_reserves returns, exactly one of
\* initial_csm and loss_component is nonzero (as the claim states it; a cohort
\* whose net margin is zero is included).
C2_ExactlyOneNonzero ==
    \A row \in ReserveRows :
        (row.initial_csm # 0) # (row.loss_component # 0)

\* C2, amended: initial_csm and loss_component are never both nonzero, both are
\* non-negative, and exactly one of them is nonzero exactly when the stored
\* net margin of the row is not zero; with a zero net margin both are zero.
C2_AtMostOneNonzero ==
    \A row \in ReserveRows :
        /\ row.initial_csm >= 0
        /\ row.loss_component >= 0
        /\ ~(row.initial_csm # 0 /\ row.loss_component # 0)
        /\ ((row.initial_csm # 0) # (row.loss_component # 0)) <=> (StoredNetMargin(row) # 0)

C2_Witness ==
    /\ reserves.returned
    /\ \E row \in ReserveRows :
         /\ row.total_incurred > 0
         /\ row.pv_premiums > 0
         /\ StoredNetMargin(row) = 0
         /\ row.initial_csm = 0
         /\ row.loss_component = 0

\* C3: with net margin = pv_premiums - pv_claims - acquisition_costs -
\* risk_adjustment over the stored columns, a positive net margin gives
\* initial_csm = net margin, loss_component = 0 and class "Profitable";
\* otherwise initial_csm = 0, loss_component = |net margin| and class
\* "Onerous"; and a row is "Profitable" exactly when its initial_csm > 0.
C3_BranchByNetMargin ==
    \A row \in ReserveRows :
        /\ StoredNetMargin(row) > 0 =>
             /\ row.initial_csm = StoredNetMargin(row)
             /\ row.loss_component = 0
             /\ row.profitability_class = "Profitable"
        /\ StoredNetMargin(row) <= 0 =>
             /\ row.initial_csm = 0
             /\ row.loss_component = Abs(StoredNetMargin(row))
             /\ row.profitability_class = "Onerous"
        /\ (row.profitability_class = "Profitable") <=> (row.initial_csm > 0)

\* C4: best_estimate_liability = pv_claims + risk_adjustment and
\* liability_remaining_coverage = best_estimate_liability + initial_csm -
\* loss_component, in whole cents, for every cohort row.
C4_BelAndLrc ==
    \A row \in ReserveRows :
        /\ row.best_estimate_liability = row.pv_claims + row.risk_adjustment
        /\ row.liability_remaining_coverage =
               row.best_estimate_liability + row.initial_csm - row.loss_component

C4_Witness ==
    /\ reserves.returned
    /\ \E row \in ReserveRows :
         /\ row.risk_adjustment > 0
         /\ row.loss_component > 0
         /\ row.liability_remaining_coverage # row.best_estimate_liability

\* C5: for every claim, report_date is not before accident_date,
\* development_month = (report year - accident year) * 12 + (report month -
\* accident month) + 1 and is at least 1, and the lag between the two dates is
\* a whole number of days between 0 and 365.
C5_ReportAfterAccident ==
    \A row \in ClaimRows :
        LET lag == ToOrdinal(row.report_date) - ToOrdinal(row.accident_date)
        IN  /\ DateLE(row.accident_date, row.report_date)
            /\ row.development_month =
                   (row.report_date.year - row.accident_date.year) * 12
                   + (row.report_date.month - row.accident_date.month) + 1
            /\ row.development_month >= 1
            /\ lag \in 0..365

C5_Witness ==
    /\ claims.returned
    /\ \E row \in ClaimRows :
         /\ row.report_date.year = row.accident_date.year + 1
         /\ ToOrdinal(row.report_date) - ToOrdinal(row.accident_date) = 365
         /\ row.development_month = 13

\* The rows of the claims table that fall in the cohort of a reserves row.
MembersOf(row) ==
    {i \in DOMAIN claims.rows :
        /\ claims.rows[i].line_of_business = row.line_of_business
        /\ claims.rows[i].geography = row.geography
        /\ claims.rows[i].accident_year = row.cohort_year}

\* The sum of one column over the member rows among the first n claims.
RECURSIVE ColumnTotal(_, _, _)
ColumnTotal(column, members, n) ==
    IF n = 0 THEN 0
    ELSE ColumnTotal(column, members, n - 1)
         + (IF n \in members THEN claims.rows[n][column] ELSE 0)

\* C6: generate_reserves returns exactly one row per distinct (line_of_business,
\* geography, accident_year) in the claims; its claim_count is the number of
\* claims of the cohort, its policy_count the number of distinct policy ids
\* among them, and total_incurred, total_paid and total_outstanding the sums of
\* the claims' amounts.
C6_OneRowPerCohort ==
    reserves.returned =>
        /\ \A i \in DOMAIN claims.rows :
             Cardinality({k \in DOMAIN reserves.rows : i \in MembersOf(reserves.rows[k])}) = 1
        /\ \A k \in DOMAIN reserves.rows :
             LET row == reserves.rows[k]
                 members == MembersOf(row)
                 n == Len(claims.rows)
             IN  /\ members # {}
                 /\ row.claim_count = Cardinality(members)
                 /\ row.policy_count = Cardinality({claims.rows[i].policy_id : i \in members})
                 /\ row.total_incurred = ColumnTotal("incurred_amount", members, n)
                 /\ row.total_paid = ColumnTotal("paid_amount", members, n)
                 /\ row.total_outstanding = ColumnTotal("outstanding_reserve", members, n)
        /\ \A k, l \in DOMAIN reserves.rows :
             MembersOf(reserves.rows[k]) = MembersOf(reserves.rows[l]) => k = l

C6_Witness ==
    /\ reserves.returned
    /\ Len(claims.rows) = 2
    /\ Len(reserves.rows) = 1
    /\ reserves.rows[1].claim_count = 2
    /\ reserves.rows[1].policy_count = 1
    /\ claims.rows[1].incurred_amount # claims.rows[2].incurred_amount

\* The number a string of decimal digits denotes.
DigitValue(c) == CHOOSE v \in 0..9 : DigitChar(v) = c

RECURSIVE ParseDigits(_)
ParseDigits(s) ==
    IF s = <<>> THEN 0
    ELSE 10 * ParseDigits(SubSeq(s, 1, Len(s) - 1)) + DigitValue(s[Len(s)])

IsGeneration(e) == e.op \in {"generate_policies", "generate_claims", "generate_reserves"}

C8_OneGeneratorSeededOnce ==
    (\E n \in DOMAIN hist : IsGeneration(hist[n])) =>
        /\ npSeedCalls = 1
        /\ \A n \in DOMAIN hist : hist[n].op # "generate_policies"

\* C8, amended: the draws come from two process-wide generators, numpy's and
\* Faker's; the first import of each module seeds numpy's with 42, and that of
\* policies and of claims seeds Faker's with 42 as well, so a generator may be
\* seeded more than once and after draws, but always before the first draw;
\* and the result of a call is a function of its arguments and of the state
\* the call finds the two generators in.
C8_SeededAtEveryImport ==
    /\ npSeedCalls = Cardinality(imported)
    /\ fakerSeedCalls = Cardinality(imported \cap {"policies", "claims"})
    /\ \A n \in DOMAIN hist :
         IsGeneration(hist[n]) =>
             /\ hist[n].np_seed = 42
             /\ \E m \in 1..(n - 1) : hist[m].op = "import" /\ hist[m].module = hist[n].module
             /\ hist[n].op = "generate_policies" => hist[n].faker_seed = 42
    /\ \A i, j \in DOMAIN hist : hist[i] = hist[j] => outs[i] = outs[j]
    /\ \A i \in DOMAIN hist, j \in DOMAIN prevHist : hist[i] = prevHist[j] => outs[i] = prevOuts[j]

C8_Witness ==
    /\ npSeedCalls = 2
    /\ fakerSeedCalls = 2
    /\ \E i, j, k \in DOMAIN hist :
         /\ i < j
         /\ j < k
         /\ hist[i].op = "generate_policies"
         /\ hist[j].op = "import"
         /\ hist[k].op = "generate_claims"
         /\ hist[k].np_pos = 0
         /\ hist[i].faker_pos = 0
         /\ hist[i].np_pos = 0

\* C10: generate_policies(N), N >= 1, completes and returns exactly N rows with
\* policy_id 1..N, every sum_insured > 0 and one customer_age per policy, each
\* within 18..85.
C10_PoliciesReturned ==
    \A n \in DOMAIN hist :
        (hist[n].op = "generate_policies" /\ hist[n].args.policy_count >= 1) =>
            /\ outs[n].returned
            /\ outs[n].error = "none"
            /\ Len(outs[n].rows) = hist[n].args.policy_count
            /\ \A i \in DOMAIN outs[n].rows :
                 /\ outs[n].rows[i].policy_id = i
                 /\ outs[n].rows[i].sum_insured > 0
                 /\ outs[n].rows[i].customer_age \in 18..85

\* C11: a non-positive count is rejected: generate_policies(N) with N < 1 and
\* generate_claims(P, C) with P < 1 or C < 1 fail with an error of the
\* InvalidArgument kind (ValueError in Python) and return no table, neither a
\* partial nor an empty one.
C11_NonPositiveCountsRejected ==
    \A n \in DOMAIN hist :
        (\/ hist[n].op = "generate_policies" /\ hist[n].args.policy_count < 1
         \/ hist[n].op = "generate_claims"
            /\ (hist[n].args.policy_count < 1 \/ hist[n].args.total_claims < 1)) =>
            /\ ~outs[n].returned
            /\ outs[n].error = "ValueError"

\* C12: generate_reserves on a claims table of no rows returns a cohort table of
\* no rows, raises no error and draws nothing: the call leaves both generators
\* where it found them.
C12_EmptyClaimsEmptyCohorts ==
    \A n \in DOMAIN hist :
        (hist[n].op = "generate_reserves" /\ hist[n].input = <<>>) =>
            /\ outs[n].returned
            /\ outs[n].error = "none"
            /\ outs[n].rows = <<>>
            /\ LET after == IF n < Len(hist)
                            THEN [np |-> hist[n + 1].np_pos, faker |-> hist[n + 1].faker_pos]
                            ELSE [np |-> npPos, faker |-> fakerPos]
               IN  after = [np |-> hist[n].np_pos, faker |-> hist[n].faker_pos]

C12_Witness ==
    /\ Len(hist) >= 2
    /\ hist[Len(hist)].op = "generate_reserves"
    /\ hist[Len(hist)].input = <<>>
    /\ hist[Len(hist) - 1].op = "generate_claims"
    /\ hist[Len(hist) - 1].args.total_claims = 0
    /\ reserves.returned
    /\ reserves.rows = <<>>

\* C13: a cohort whose total_incurred is 0 has pv_claims = 0 and
\* risk_adjustment = 0, and its reserve_adequacy_ratio is total_outstanding / 1;
\* more generally the ratio's denominator is 1 whenever pv_claims <= 1 (a
\* dollar, 100 cents): the ratio, in ten-thousandths, is then total_outstanding
\* in cents times 100.
C13_ZeroIncurredGuard ==
    \A row \in ReserveRows :
        /\ row.total_incurred = 0 =>
             /\ row.pv_claims = 0
             /\ row.risk_adjustment = 0
        /\ row.pv_claims <= 100 => row.reserve_adequacy_ratio = row.total_outstanding * 100

C13_Witness ==
    /\ reserves.returned
    /\ \E row \in ReserveRows :
         /\ row.total_incurred = 0
         /\ row.pv_claims = 0
         /\ row.reserve_adequacy_ratio = 0

\* The report lag of a claim in days, and the development month the code gives
\* a claim of the same accident date reported after d days.
LagOf(row) == ToOrdinal(row.report_date) - ToOrdinal(row.accident_date)

DevelopmentMonthAtLag(row, d) ==
    DevelopmentMonth(row.accident_date, AddDays(row.accident_date, d))

\* C14: for a fixed accident date, development_month strictly increases with
\* the report lag (as the claim states it): a claim reported one day later than
\* another has a greater development_month; and development_month is never
\* below 1.
C14_StrictlyIncreasing ==
    \A row \in ClaimRows :
        /\ row.development_month >= 1
        /\ LagOf(row) >= 1 => DevelopmentMonthAtLag(row, LagOf(row) - 1) < row.development_month

\* C14, amended: for a fixed accident date, development_month never decreases
\* as the report lag grows (checked day by day over every lag 0..365), it is
\* equal for lags that end in the same calendar month, strictly greater for
\* lags 31 days or more apart, and never below 1.
C14_NonDecreasing ==
    \A row \in ClaimRows :
        /\ row.development_month >= 1
        /\ LagOf(row) >= 1 =>
             LET before == AddDays(row.accident_date, LagOf(row) - 1)
                 earlier == DevelopmentMonth(row.accident_date, before)
             IN  /\ earlier <= row.development_month
                 /\ (before.month = row.report_date.month) <=> (earlier = row.development_month)
        /\ LagOf(row) >= 31 => DevelopmentMonthAtLag(row, LagOf(row) - 31) < row.development_month

C14_Witness ==
    /\ claims.returned
    /\ \E row \in ClaimRows :
         /\ LagOf(row) = 40
         /\ DevelopmentMonthAtLag(row, 39) = row.development_month
         /\ DevelopmentMonthAtLag(row, 9) < row.development_month
         /\ row.development_month = 2

\* The four calendar quarter ends, as (month, day).
QuarterEnds == {<<3, 31>>, <<6, 30>>, <<9, 30>>, <<12, 31>>}

\* C15: every cohort's valuation date comes from 2024-12-31 minus 90 days times
\* an offset q in 0..7, snapped forward to a calendar quarter end: it is one of
\* Mar 31, Jun 30, Sep 30 and Dec 31, it is not earlier than the offset date,
\* and it is the end of the quarter that contains the offset date.
C15_ValuationQuarterEnd ==
    \A row \in ReserveRows :
        \E q \in 0..7 :
            LET offset == AddDays([year |-> 2024, month |-> 12, day |-> 31], 0 - 90 * q)
                val == row.valuation_date
            IN  /\ <<val.month, val.day>> \in QuarterEnds
                /\ DateLE(offset, val)
                /\ val.year = offset.year
                /\ (val.month - 1) \div 3 = (offset.month - 1) \div 3

C15_Witness ==
    /\ reserves.returned
    /\ \E row \in ReserveRows :
         row.valuation_date = [year |-> 2023, month |-> 6, day |-> 30]

\* C16: claim_status is a function of outstanding_reserve alone: "Closed" when
\* outstanding <= 10 (1000 cents), "Open" when 10 < outstanding <= 1000, and
\* "Reserved" when outstanding > 1000; no other status occurs.
C16_StatusByOutstanding ==
    \A row \in ClaimRows :
        /\ row.claim_status \in {"Closed", "Open", "Reserved"}
        /\ (row.claim_status = "Closed") <=> (row.outstanding_reserve <= 1000)
        /\ (row.claim_status = "Open") <=>
               (row.outstanding_reserve > 1000 /\ row.outstanding_reserve <= 100000)
        /\ (row.claim_status = "Reserved") <=> (row.outstanding_reserve > 100000)

C16_Witness ==
    /\ claims.returned
    /\ \E row \in ClaimRows :
         /\ row.outstanding_reserve = 100000
         /\ row.claim_status = "Open"
         /\ row.paid_amount = 0

\* The coverage months np.random.randint can return for a line of business.
MonthsRange(lob) ==
    IF lob = "Life" THEN 120..480 ELSE IF lob = "Pension" THEN 240..600 ELSE 12..60

\* What C17 says of the units and of the amortization formula: total =
\* policy_count x months with months in the line's range, floor(total / 2) <=
\* current <= total, csm_amortization is initial_csm x (current / total) x 0.25
\* rounded to the cent (within half a cent of it) and not negative, and it is 0
\* for an Onerous cohort.
UnitsAndAmortization(row) ==
    /\ \E months \in MonthsRange(row.line_of_business) :
         row.coverage_units_total = row.policy_count * months
    /\ row.coverage_units_total > 0
    /\ row.coverage_units_total \div 2 <= row.coverage_units_current
    /\ row.coverage_units_current <= row.coverage_units_total
    /\ Abs(4 * row.coverage_units_total * row.csm_amortization
           - row.initial_csm * row.coverage_units_current) <= 2 * row.coverage_units_total
    /\ row.csm_amortization >= 0
    /\ row.profitability_class = "Onerous" => row.csm_amortization = 0

\* C17: the units and the amortization are as above, hence (as the claim
\* states it) csm_amortization <= 0.25 x initial_csm.
C17_AmortizationAtMostQuarter ==
    \A row \in ReserveRows :
        /\ UnitsAndAmortization(row)
        /\ 4 * row.csm_amortization <= row.initial_csm

\* C17, amended: the units and the amortization are as above, and since the
\* amortization is rounded to the cent it exceeds 0.25 x initial_csm by at most
\* half a cent: csm_amortization <= 0.25 x initial_csm + 0.005.
C17_AmortizationWithinRounding ==
    \A row \in ReserveRows :
        /\ UnitsAndAmortization(row)
        /\ 4 * row.csm_amortization <= row.initial_csm + 2

C17_Witness ==
    /\ reserves.returned
    /\ \E row \in ReserveRows :
         /\ row.policy_count = 2
         /\ row.initial_csm > 0
         /\ 4 * row.csm_amortization > row.initial_csm

\* The mean and the standard deviation, in hundredths, of the bucket a
\* development month selects: <=12, <=24, <=36, else.
BucketMean(dev_month) ==
    IF dev_month <= 12 THEN 95 ELSE IF dev_month <= 24 THEN 102
    ELSE IF dev_month <= 36 THEN 101 ELSE 100

BucketSd(dev_month) ==
    IF dev_month <= 12 THEN 10 ELSE IF dev_month <= 24 THEN 5
    ELSE IF dev_month <= 36 THEN 3 ELSE 2

\* The standard normal deviates the specifications draw factors with.
Deviates == -10..3

\* incurred_amount is initial_reserve x max(0.1, factor) rounded to the cent
\* (within half a cent of it), for a factor of the bucket the row's
\* development_month selects.
IncurredFromBucket(row) ==
    \E z \in Deviates :
        LET factor == BucketMean(row.development_month)
                          + BucketSd(row.development_month) * z
            floored == IF factor < 10 THEN 10 ELSE factor
        IN  Abs(100 * row.incurred_amount - row.initial_reserve * floored) <= 50

\* C18: the factor comes from the bucket of development_month and is floored
\* at 0.1, incurred_amount = round(initial_reserve x max(0.1, factor), 2), and
\* (as the claim states it) incurred_amount > 0 for every claim whose
\* initial_reserve is positive.
C18_IncurredPositive ==
    \A row \in ClaimRows :
        /\ IncurredFromBucket(row)
        /\ row.initial_reserve > 0 => row.incurred_amount > 0

\* C18, amended: the factor comes from the bucket of development_month and is
\* floored at 0.1, incurred_amount = round(initial_reserve x max(0.1, factor), 2),
\* and incurred_amount is never negative; it is positive for every claim whose
\* initial_reserve is at least 0.06, and can round to 0.00 below that.
C18_IncurredNotNegative ==
    \A row \in ClaimRows :
        /\ IncurredFromBucket(row)
        /\ row.incurred_amount >= 0
        /\ row.initial_reserve >= 6 => row.incurred_amount > 0

C18_Witness ==
    /\ claims.returned
    /\ \E row \in ClaimRows :
         /\ row.development_month = 1
         /\ row.initial_reserve = 4
         /\ row.incurred_amount = 0

\* The duration, in half years, a cohort's pv_factor was computed with, and the
\* division sites of the cohort's row.
RowDuration(row) ==
    CHOOSE d \in {DurationGrid[i] : i \in DOMAIN DurationGrid} :
        PvFactor(DiscountRate(row.line_of_business), d) = row.pv_factor

RowDivisionSites(row) ==
    DivisionSites(row.line_of_business, RowDuration(row),
                  row.coverage_units_total, row.pv_claims)

\* No site of a row divides by zero, and the row's columns are the quotients
\* by the sites' divisors.
NoDivisionByZero(row) ==
    LET sites == RowDivisionSites(row)
    IN  /\ \A site \in DivisionSiteNames :
             sites[site].divides => sites[site].divisor > 0
        /\ 2 * Abs(row.pv_factor * sites["pv_factor"].divisor - 10000)
              <= row.pv_factor + sites["pv_factor"].divisor + 2
        /\ row.csm_amortization =
              IF sites["csm_amortization"].divides
              THEN RoundDiv(row.initial_csm * row.coverage_units_current,
                            4 * sites["csm_amortization"].divisor)
              ELSE 0
        /\ row.reserve_adequacy_ratio =
              RoundDiv(row.total_outstanding * 10000,
                       sites["reserve_adequacy_ratio"].divisor)
        /\ row.risk_margin =
              RoundDiv(row.risk_adjustment * 10000, sites["risk_margin"].divisor)

\* C19: generate_reserves never divides by zero, and (as the claim states it)
\* the guard of every division site is a max(1, denominator).
C19_EveryGuardIsMaxOne ==
    \A row \in ReserveRows :
        /\ NoDivisionByZero(row)
        /\ \A site \in DivisionSiteNames : RowDivisionSites(row)[site].guard = "max_1"

\* C19, amended: generate_reserves never divides by zero; the two ratios
\* (reserve adequacy, metadata risk margin) divide by max(1, pv_claims), the
\* CSM amortization rate is computed only if coverage_units_total > 0, which
\* always holds, and the present-value factor divides by (1 + rate) ** duration
\* with no guard, a value that is always above 1.
C19_NoDivisionByZero ==
    \A row \in ReserveRows :
        LET sites == RowDivisionSites(row)
        IN  /\ NoDivisionByZero(row)
            /\ sites["reserve_adequacy_ratio"].guard = "max_1"
            /\ sites["risk_margin"].guard = "max_1"
            /\ sites["csm_amortization"].guard = "positive_test"
            /\ sites["csm_amortization"].divides
            /\ sites["pv_factor"].guard = "none"
            /\ sites["pv_factor"].divisor > 100

C19_Witness ==
    /\ reserves.returned
    /\ \E row \in ReserveRows :
         /\ row.pv_claims = 0
         /\ row.total_outstanding = 0
         /\ RowDivisionSites(row)["reserve_adequacy_ratio"].divisor = 100
         /\ RowDivisionSites(row)["csm_amortization"].divisor = row.coverage_units_total
         /\ RowDivisionSites(row)["pv_factor"].divisor = 168

\* Calendar months from the accident date to the report date of a claim.
MonthsBetween(row) ==
    (row.report_date.year - row.accident_date.year) * 12
        + (row.report_date.month - row.accident_date.month)

\* C20: with the accident day in 1..28 and a report lag of at most 365 days,
\* development_month is at most 13; months + 1 is never below 1, so max(1, .)
\* never changes it; and the factor is never taken from a bucket above 24
\* months: the incurred amount is the initial reserve times the mean of the
\* <=12 bucket (0.95) or of the <=24 bucket (1.02), the deviate being 0.
C20_DevelopmentMonthAtMostThirteen ==
    \A row \in ClaimRows :
        /\ row.accident_date.day \in 1..28
        /\ LagOf(row) \in 0..MaxDelayDays
        /\ MonthsBetween(row) + 1 >= 1
        /\ row.development_month = MonthsBetween(row) + 1
        /\ row.development_month <= 13
        /\ row.incurred_amount =
              IF row.development_month <= 12
              THEN (row.initial_reserve * 95) \div 100
              ELSE (row.initial_reserve * 102) \div 100

C20_Witness ==
    /\ claims.returned
    /\ \E row \in ClaimRows :
         /\ row.accident_date.day = 28
         /\ LagOf(row) = MaxDelayDays
         /\ row.development_month = 13
         /\ row.incurred_amount = 1020

\* C21: in every cohort row initial_csm - loss_component is the net margin
\* pv_premiums - pv_claims - acquisition_costs - risk_adjustment, whichever
\* branch was taken, so liability_remaining_coverage = pv_premiums -
\* acquisition_costs, in whole cents.
C21_LrcIsPremiumsLessAcquisition ==
    \A row \in ReserveRows :
        /\ row.profitability_class \in {"Profitable", "Onerous"}
        /\ row.initial_csm - row.loss_component =
               row.pv_premiums - row.pv_claims - row.acquisition_costs - row.risk_adjustment
        /\ row.liability_remaining_coverage = row.pv_premiums - row.acquisition_costs

C21_Witness ==
    /\ reserves.returned
    /\ \E row \in ReserveRows :
         /\ row.profitability_class = "Onerous"
         /\ row.loss_component > 0
         /\ row.liability_remaining_coverage < row.best_estimate_liability
         /\ row.liability_remaining_coverage = row.pv_premiums - row.acquisition_costs

=============================================================================
